---- MODULE Spec2Model ----
(***************************************************************************)
(* LootAlert WhatsApp bot (src/src/bot.js): the session status cell qrRef, *)
(* the client handle clientGlobal, the status read GET /api/qr and the     *)
(* broadcast handler POST /api/send, as a state machine.                   *)
(*                                                                         *)
(* JavaScript strings that the code inspects character by character (the   *)
(* group ids) are sequences of one-character strings.  Strings the code    *)
(* only tests for truthiness or passes on (URLs, QR payloads) are TLA+     *)
(* strings, "" being the empty string.  null/undefined values are tagged   *)
(* records so that every value of one variable has the same shape.         *)
(*                                                                         *)
(* Spec is one campaign at a time with the session callbacks arriving at   *)
(* any moment; SessionSpec is the callbacks and the status read, with the  *)
(* history of the callbacks kept; ConcSpec is two campaigns interleaved;   *)
(* FailSpec is campaigns and status reads with the 500 answers kept;       *)
(* LiveSpec is one campaign whose calls all settle; NormSpec is            *)
(* normalizeGroupId on its own.  Loop indices count from 1 (JS i + 1).     *)
(***************************************************************************)
EXTENDS Integers, Sequences, FiniteSets, TLC

VARIABLES
    clientGlobal,   \* bot.js:39   "null" until wppconnect.create resolves, then "client"
    qrRef,          \* bot.js:40   [code, connected]
    DEFAULT_GROUPS, \* bot.js:34   configured default destinations (fixed at start)
    lastEvent,      \* history: the last session lifecycle callback that ran
    qrResp,         \* history: last answer of GET /api/qr and the status it read
    req,            \* one record per POST /api/send request slot
    afterFailure,   \* history: a request was answered 500; a status read came after it
    norm,           \* one application of normalizeGroupId and its re-application
    listing,        \* the GET /api/groups request
    startup,        \* the startup sequence that follows wppconnect.create
    compose,        \* one message composition and its repetition
    delays          \* history: the pre-send and post-send waits drawn so far

vars == <<clientGlobal, qrRef, DEFAULT_GROUPS, lastEvent, qrResp, req, afterFailure, norm,
          listing, startup, compose, delays>>

----------------------------------------------------------------------------
(* Bounds of the model *)

\* longest destination list a request (or the configuration) carries
MaxGroups == 2

\* most pieces a raw destination string is put together from
MaxPieces == 3

\* the login challenges in a row that the history of events tells apart
MaxChallenges == 2

\* Math.random() is modelled as num / RandomDen with 0 <= num < RandomDen
RandomDen == 100000

----------------------------------------------------------------------------
(* Character strings *)

Suffix == <<"@", "g", ".", "u", "s">>

\* String.prototype.includes
Includes(s, sub) ==
    \E k \in 0..(Len(s) - Len(sub)) : SubSeq(s, k + 1, k + Len(sub)) = sub

RECURSIVE TrimStart(_)
TrimStart(s) == IF s # <<>> /\ Head(s) = " " THEN TrimStart(Tail(s)) ELSE s

RECURSIVE TrimEnd(_)
TrimEnd(s) ==
    IF s # <<>> /\ s[Len(s)] = " " THEN TrimEnd(SubSeq(s, 1, Len(s) - 1)) ELSE s

\* String.prototype.trim
Trim(s) == TrimEnd(TrimStart(s))

\* normalizeGroupId(raw): null for a falsy raw, else the trimmed id carrying @g.us
NullId == [isNull |-> TRUE, s |-> <<>>]

\* (mutation) the suffix appended without looking for it first
normalizeGroupIdAlwaysAppends(raw) ==
    IF raw = <<>> THEN NullId
    ELSE [isNull |-> FALSE, s |-> Trim(raw) \o Suffix]

normalizeGroupId(raw) ==
    IF raw = <<>> THEN NullId
    ELSE LET s == Trim(raw)
         IN  [isNull |-> FALSE, s |-> IF Includes(s, Suffix) THEN s ELSE s \o Suffix]

\* Boolean(x) for a normalizeGroupId result: null and "" are falsy
IdTruthy(n) == ~n.isNull /\ n.s # <<>>

\* normalizeGroupId applied to one of its own results (null is falsy: null again)
Renormalized(n) == IF n.isNull THEN NullId ELSE normalizeGroupId(n.s)

RECURSIVE DedupIds(_, _)
DedupIds(raws, seen) ==
    IF raws = <<>> THEN <<>>
    ELSE LET n == normalizeGroupId(Head(raws))
         IN  IF IdTruthy(n) /\ n.s \notin seen
             THEN <<n.s>> \o DedupIds(Tail(raws), seen \cup {n.s})
             ELSE DedupIds(Tail(raws), seen)

\* (mutation) the list with repeated destinations removed
MapFilterIdsDedup(raws) == DedupIds(raws, {})

RECURSIVE MapFilterIds(_)
\* groupsRaw.map(normalizeGroupId).filter(Boolean)
MapFilterIds(raws) ==
    IF raws = <<>> THEN <<>>
    ELSE LET n == normalizeGroupId(Head(raws))
         IN  (IF IdTruthy(n) THEN <<n.s>> ELSE <<>>) \o MapFilterIds(Tail(raws))

----------------------------------------------------------------------------
(* Session status: qrRef and its lifecycle callbacks *)

NullCode == [kind |-> "null", data |-> ""]

\* the QR payloads wppconnect hands to catchQR; "\uD800" stands for a urlCode
\* holding a lone surrogate, on which encodeURIComponent throws URIError
UrlCodes == {"ref-A", "\\uD800"}
Base64Qrs == {"", "data:image/png;base64,QR"}
StateNames == {"CONNECTED", "DISCONNECTED", "UNPAIRED", "CONFLICT"}

EncodeThrows(urlCode) == urlCode = "\\uD800"

\* the value catchQR stores in qrRef.code
QrCodeFor(base64Qr, asciiQR, urlCode) ==
    IF ~EncodeThrows(urlCode)
    THEN [kind |-> "qrserver-url", data |-> urlCode]
    ELSE IF base64Qr # "" THEN [kind |-> "raw", data |-> base64Qr]
    ELSE IF asciiQR # "" THEN [kind |-> "raw", data |-> asciiQR]
    ELSE NullCode

\* truthiness of qrRef.code: null is falsy, every stored string is non-empty
CodeTruthy(code) == code.kind # "null" /\ ~(code.kind = "raw" /\ code.data = "")

CatchQRResult(ref, base64Qr, asciiQR, urlCode) ==
    [ref EXCEPT !.code = QrCodeFor(base64Qr, asciiQR, urlCode)]

\* (mutation) a CONFLICT state is taken for a disconnection too
OnStateChangeAnyConflict(ref, state) ==
    IF state = "DISCONNECTED" \/ state = "UNPAIRED" \/ state = "CONFLICT"
    THEN [ref EXCEPT !.connected = FALSE]
    ELSE ref

\* onStateChange: only DISCONNECTED and UNPAIRED are acted on
OnStateChangeResult(ref, state) ==
    IF state = "DISCONNECTED" \/ state = "UNPAIRED"
    THEN [ref EXCEPT !.connected = FALSE]
    ELSE ref

OnConnectedResult(ref) == [ref EXCEPT !.connected = TRUE]

\* (mutation) a logout that also forgets the stored artifact
OnLogoutClearsCode(ref) == [ref EXCEPT !.connected = FALSE, !.code = NullCode]

OnLogoutResult(ref) == [ref EXCEPT !.connected = FALSE]

\* (mutation) the artifact test made before the connected test
QrResponseCodeFirst(ref) ==
    IF CodeTruthy(ref.code) THEN [status |-> "qr", qr |-> ref.code]
    ELSE IF ref.connected THEN [status |-> "connected", qr |-> NullCode]
    ELSE [status |-> "waiting", qr |-> NullCode]

\* (mutation) no "waiting" answer: whatever is stored is served as the artifact
QrResponseNoWaiting(ref) ==
    IF ref.connected THEN [status |-> "connected", qr |-> NullCode]
    ELSE [status |-> "qr", qr |-> ref.code]

\* GET /api/qr
QrResponse(ref) ==
    IF ref.connected THEN [status |-> "connected", qr |-> NullCode]
    ELSE IF CodeTruthy(ref.code) THEN [status |-> "qr", qr |-> ref.code]
    ELSE [status |-> "waiting", qr |-> NullCode]

NoEvent ==
    [kind |-> "none", code |-> NullCode, challenged |-> FALSE, state |-> "",
     before |-> [code |-> NullCode, connected |-> FALSE], challenges |-> 0,
     artifact |-> NullCode]

NoFailure == [failed |-> FALSE, read |-> FALSE]

\* nothing normalized yet
NoNorm == [pc |-> "none", raw |-> <<>>, once |-> NullId, twice |-> NullId]

NoQrResp == [asked |-> FALSE, seen |-> [code |-> NullCode, connected |-> FALSE],
             body |-> [status |-> "", qr |-> NullCode], after |-> NoEvent]

----------------------------------------------------------------------------
(* The request and the outcomes of the external calls *)

Str123 == <<"1", "2", "3">>
Str456gus == <<"4", "5", "6">> \o Suffix

\* raw destination strings a caller may put in groupIds
RawIds == {<<>>, <<" ">>, Str123, Str456gus}

RECURSIVE SeqsUpTo(_, _)
SeqsUpTo(S, n) ==
    IF n = 0 THEN {<<>>}
    ELSE LET shorter == SeqsUpTo(S, n - 1)
         IN  shorter \cup {Append(q, x) : q \in {t \in shorter : Len(t) = n - 1}, x \in S}

\* req.body.groupIds: absent, something that is not an array, or an array of strings
GroupIdsValues ==
    {[kind |-> "absent", list |-> <<>>], [kind |-> "notArray", list |-> <<>>]}
    \cup {[kind |-> "array", list |-> l] : l \in SeqsUpTo(RawIds, MaxGroups)}

ImageValues == {"", "https://img.example/deal.jpg"}

\* the text fields of req.body the caption is built from ("" is an absent field)
NoText ==
    [message |-> "", title |-> "", body |-> "", description |-> "", details |-> "",
     link |-> "", url |-> "", urgency |-> "", price |-> ""]

Payloads == [groupIds : GroupIdsValues, image : ImageValues, img : {""}, text : {NoText}]

\* message-sample.js:2-8
SampleDealName == "Boat Smartwatch - Super Offer!"
SampleDealPrice == "1299"
SampleDealImage == "https://m.media-amazon.com/images/I/51Inwb0gwLL._AC_UL320_.jpg"
SampleDealLink == "https://amzn.to/3LAnFaJ"

\* process.env.AFFILIATE_ID || "" with the variable unset
AFFILIATE_ID == ""

\* what the dynamic import("axios") settles to
ImportResults == {"ok", "throw"}

\* what clientGlobal.isConnected() settles to (a boolean, or a rejection)
IsConnectedResults == {"true", "false", "throw"}

\* what axios.get settles to: rejected (network error, timeout, non-2xx), or
\* resolved with no data, or resolved with a Buffer of so many bytes
FetchResults ==
    {[ok |-> FALSE, hasData |-> FALSE, bytes |-> 0],
     [ok |-> TRUE, hasData |-> FALSE, bytes |-> 0],
     [ok |-> TRUE, hasData |-> TRUE, bytes |-> 0],
     [ok |-> TRUE, hasData |-> TRUE, bytes |-> 3000]}

\* what a send call settles to: a result, a result carrying erro: true, or rejected
SendResults == {"ok", "erro", "throw"}

----------------------------------------------------------------------------
(* POST /api/send: the pure steps of the handler *)

\* (mutation) only a rejected isConnected() refuses the request
ReadyFailsOnlyThrow(res) == res = "throw"

\* the isConnected result on which the handler answers "not ready"
ReadyFails(res) == res = "throw" \/ res = "false"

\* (mutation) any array, even an empty one, is taken as the request's list
GroupsRawAnyArray(payload, defaults) ==
    IF payload.groupIds.kind = "array" THEN payload.groupIds.list ELSE defaults

\* groupsRaw: the request's list when it is a non-empty array, else the defaults
GroupsRawOf(payload, defaults) ==
    IF payload.groupIds.kind = "array" /\ Len(payload.groupIds.list) > 0
    THEN payload.groupIds.list
    ELSE defaults

\* a || b || c over strings, "" being falsy
FirstTruthy(choices) ==
    LET kept == SelectSeq(choices, LAMBDA c : c # "")
    IN  IF kept = <<>> THEN "" ELSE Head(kept)

\* captionParts: each part is the sequence of the pieces of its template string
\* (the emoji of the templates are written as words); the parts are later joined
\* by blank lines, so finalCaption is given by this sequence
CaptionParts(text, affiliateId) ==
    LET title == FirstTruthy(<<text.message, text.title, SampleDealName, "Hot Deal">>)
        body == FirstTruthy(<<text.body, text.description, text.details>>)
        link == FirstTruthy(<<text.link, text.url, SampleDealLink>>)
        urgency == FirstTruthy(<<text.urgency, "Limited time offer - don't miss!">>)
        priceLine == IF text.price # "" THEN <<"Price: ", text.price>>
                     ELSE IF SampleDealPrice # "" THEN <<"Price: Rs", SampleDealPrice>>
                     ELSE <<>>
    IN  <<<<"(fire) *", title, "*">>>>
        \o (IF priceLine # <<>> THEN <<<<"(money) ">> \o priceLine>> ELSE <<>>)
        \o (IF body # "" THEN <<<<body>>>> ELSE <<>>)
        \o (IF link # "" THEN <<<<"(point) Buy: ", link>>>> ELSE <<>>)
        \o <<<<urgency>>>>
        \o <<<<"(tag) ", IF affiliateId # "" THEN "#" ELSE "LootAlert", affiliateId>>>>

\* message-sample.js:2-8 (the fields createMessage reads)
SampleDeal ==
    [name |-> SampleDealName, price |-> SampleDealPrice, discount |-> "56",
     link |-> SampleDealLink]

\* createMessage(deal, affiliateId): the lines of the template after trim(), each
\* line the sequence of its pieces (<<>> is an empty line)
CreateMessage(deal, affiliateId) ==
    << <<"(boom) *", deal.name, "* (boom)">>,
       <<>>,
       <<"(fire) Price Drop Alert!  ">>,
       <<"(money) *Now only Rs", deal.price, "* (Save ", deal.discount, "%)">>,
       <<>>,
       <<"(target) _Limited Time Offer!_  ">>,
       <<"(bags) Click here to grab the deal:  ">>,
       <<"(point) ", deal.link>>,
       <<>>,
       IF affiliateId # "" THEN <<"(tag) Tag: #", affiliateId>> ELSE <<>>,
       <<"(rocket) Hurry up! Before it's gone! (clock)">> >>

\* imageUrl = payload.image || payload.img || sampleDeal.image || null ("" is null)
ImageUrlOf(payload) ==
    IF payload.image # "" THEN payload.image
    ELSE IF payload.img # "" THEN payload.img
    ELSE SampleDealImage

\* length of "data:image/jpeg;base64,"
DataUriPrefixLen == 23

Base64Len(bytes) == 4 * ((bytes + 2) \div 3)

NullImage == [isNull |-> TRUE, len |-> 0]

\* base64Image after the fetch: null when axios.get rejects or response.data is
\* falsy, else the data URI of the bytes (a Buffer, even an empty one, is truthy)
Base64Of(f) ==
    IF f.ok /\ f.hasData
    THEN [isNull |-> FALSE, len |-> DataUriPrefixLen + Base64Len(f.bytes)]
    ELSE NullImage

\* if (base64Image): a non-empty string
ImageTruthy(b) == ~b.isNull /\ b.len > 0

\* the client method the loop calls for one destination
SendOp(b) == IF ImageTruthy(b) THEN "sendImage" ELSE "sendText"

\* (mutation) a rejected send call escapes to the handler's outer catch
SendAbortsOnThrow(res) == res = "throw"

\* whether a settled send call ends the loop: safeCall turns a rejection into
\* {ok: false}, and the handler only logs it
SendAborts(res) == FALSE

\* the values of Math.random() the model draws: the least, the next one, the
\* middle, and the greatest below 1
RandomNums == {0, 1, RandomDen \div 2, RandomDen - 1}

\* (mutation) Math.round in place of Math.floor
PreDelayOfRounded(num) == 500 + (2 * num * 800 + RandomDen) \div (2 * RandomDen)

\* const preDelay = 500 + Math.floor(Math.random() * 800)
PreDelayOf(num) == 500 + (num * 800) \div RandomDen

\* const postDelay = 1500 + Math.floor(Math.random() * 2500)
PostDelayOf(num) == 1500 + (num * 2500) \div RandomDen

\* the index the loop moves to after destination i (i++; the model counts from 1)
NextIndex(i) == i + 1

NoResp == [status |-> 0, error |-> ""]
\* the image fetch of one request: count is the number of axios.get calls started
NoFetch ==
    [done |-> FALSE, url |-> "", count |-> 0,
     result |-> [ok |-> FALSE, hasData |-> FALSE, bytes |-> 0]]
NoPayload ==
    [groupIds |-> [kind |-> "absent", list |-> <<>>], image |-> "", img |-> "",
     text |-> NoText]

IdleReq ==
    [pc |-> "idle", payload |-> NoPayload, connAtStart |-> FALSE, isReady |-> "none",
     groupsRaw |-> <<>>, groups |-> <<>>, finalCaption |-> <<>>, imported |-> "none",
     fetch |-> NoFetch, base64Image |-> NullImage,
     i |-> 0, calls |-> <<>>, resp |-> NoResp, responses |-> 0]

Reqs == {"a", "b"}

\* return res.status(status).json(...): the response goes out and the handler ends;
\* responses counts the responses written for the request
Respond(rec, status, error) ==
    [rec EXCEPT !.pc = "done", !.resp = [status |-> status, error |-> error],
                !.responses = @ + 1]

\* (mutation) no catch around the handler: the error escapes and no response is sent
OuterCatchMissing(rec, message) == [rec EXCEPT !.pc = "unhandled"]

\* catch (err) of the handler: res.status(500).json({error: err.message})
OuterCatch(rec, message) == Respond(rec, 500, message)

\* (mutation) a campaign in which some delivery failed is answered with an error
LoopAtFailsOnFailedSend(rec, i) ==
    IF i <= Len(rec.groups)
    THEN [rec EXCEPT !.pc = "preDelay", !.i = i]
    ELSE IF \E k \in 1..Len(rec.calls) : rec.calls[k].result \in {"erro", "throw"}
    THEN Respond(rec, 500, "some sends failed")
    ELSE Respond(rec, 200, "")

\* (mutation) the handler returns after the loop without sending a response
LoopAtNoResponse(rec, i) ==
    IF i <= Len(rec.groups)
    THEN [rec EXCEPT !.pc = "preDelay", !.i = i]
    ELSE [rec EXCEPT !.pc = "returned"]

\* (mutation) the loop body without its pre-send wait: the send call starts at once
LoopAtNoPreDelay(rec, i) ==
    IF i <= Len(rec.groups)
    THEN [rec EXCEPT !.pc = "sending", !.i = i,
                     !.calls = Append(@, [op |-> SendOp(rec.base64Image),
                                          to |-> rec.groups[i],
                                          image |-> rec.base64Image,
                                          caption |-> rec.finalCaption,
                                          result |-> "pending"])]
    ELSE Respond(rec, 200, "")

\* for (let i = 0; i < groups.length; i++): enter the body or fall through to res.json
LoopAt(rec, i) ==
    IF i <= Len(rec.groups)
    THEN [rec EXCEPT !.pc = "preDelay", !.i = i]
    ELSE Respond(rec, 200, "")

----------------------------------------------------------------------------
(* Configuration: DEFAULT_GROUPS from the GROUP_IDS / GROUP_ID environment *)

RECURSIVE SplitComma(_, _)
\* String.prototype.split(","), cur being the piece read so far
SplitComma(s, cur) ==
    IF s = <<>> THEN <<cur>>
    ELSE IF Head(s) = "," THEN <<cur>> \o SplitComma(Tail(s), <<>>)
    ELSE SplitComma(Tail(s), Append(cur, Head(s)))

\* RAW_GROUPS.split(",").filter(Boolean).map((g) => g.trim())
DefaultGroupsOf(raw) ==
    LET pieces == SelectSeq(SplitComma(raw, <<>>), LAMBDA g : g # <<>>)
    IN  [k \in 1..Len(pieces) |-> Trim(pieces[k])]

\* values of the environment variable: unset, and "123, 456@g.us"
RawGroupsEnvs == {<<>>, Str123 \o <<",", " ">> \o Str456gus}

----------------------------------------------------------------------------
(* The other requests and sequences, before they start *)

\* GET /api/groups not asked yet
NoListing == [pc |-> "idle", called |-> FALSE, resp |-> NoResp]

\* the startup sequence before wppconnect.create has resolved: chatId, what
\* became of the image fetch, the send calls made, and the flag sent
NoStartup ==
    [pc |-> "init", chatId |-> NullId, fetched |-> "none", calls |-> <<>>, sent |-> FALSE]

\* nothing composed yet
NoCompose ==
    [pc |-> "none", text |-> NoText, affiliateId |-> "", caption |-> <<>>,
     captionAgain |-> <<>>, message |-> <<>>, messageAgain |-> <<>>]

\* no wait drawn yet (0 stands for none)
NoDelays == [pre |-> 0, post |-> 0, maxPre |-> 0, minPost |-> 0]

----------------------------------------------------------------------------
(* State machine *)

\* (mutation) the status cell constructed with a placeholder in its code field
InitPlaceholderCode ==
    /\ clientGlobal = "null"
    /\ qrRef = [code |-> [kind |-> "raw", data |-> "pending"], connected |-> FALSE]
    /\ DEFAULT_GROUPS \in {DefaultGroupsOf(raw) : raw \in RawGroupsEnvs}
    /\ lastEvent = NoEvent
    /\ qrResp = NoQrResp
    /\ req = [r \in Reqs |-> IdleReq]
    /\ afterFailure = NoFailure
    /\ norm = NoNorm
    /\ listing = NoListing
    /\ startup = NoStartup
    /\ compose = NoCompose
    /\ delays = NoDelays

Init ==
    /\ clientGlobal = "null"
    /\ qrRef = [code |-> NullCode, connected |-> FALSE]
    /\ DEFAULT_GROUPS \in {DefaultGroupsOf(raw) : raw \in RawGroupsEnvs}
    /\ lastEvent = NoEvent
    /\ qrResp = NoQrResp
    /\ req = [r \in Reqs |-> IdleReq]
    /\ afterFailure = NoFailure
    /\ norm = NoNorm
    /\ listing = NoListing
    /\ startup = NoStartup
    /\ compose = NoCompose
    /\ delays = NoDelays

\* The session callbacks below say what they do to the program's state; the two
\* history variables are set where the callbacks are composed into a next-state
\* relation (Recorded, NotRecorded).

\* catchQR callback of wppconnect.create
CatchQR(base64Qr, asciiQR, urlCode) ==
    /\ qrRef' = CatchQRResult(qrRef, base64Qr, asciiQR, urlCode)
    /\ UNCHANGED <<clientGlobal, DEFAULT_GROUPS, req>>

\* onStateChange callback
OnStateChange(state) ==
    /\ qrRef' = OnStateChangeResult(qrRef, state)
    /\ UNCHANGED <<clientGlobal, DEFAULT_GROUPS, req>>

\* onConnected callback
OnConnected ==
    /\ qrRef' = OnConnectedResult(qrRef)
    /\ UNCHANGED <<clientGlobal, DEFAULT_GROUPS, req>>

\* onLogout callback
OnLogout ==
    /\ qrRef' = OnLogoutResult(qrRef)
    /\ UNCHANGED <<clientGlobal, DEFAULT_GROUPS, req>>

\* wppconnect.create resolves: clientGlobal = client; qrRef.connected = true
ClientReady ==
    /\ clientGlobal = "null"
    /\ clientGlobal' = "client"
    /\ qrRef' = [qrRef EXCEPT !.connected = TRUE]
    /\ UNCHANGED <<DEFAULT_GROUPS, req>>

\* GET /api/qr
ApiQr ==
    /\ qrResp' = [asked |-> TRUE, seen |-> qrRef, body |-> QrResponse(qrRef),
                  after |-> lastEvent]
    /\ UNCHANGED <<clientGlobal, qrRef, DEFAULT_GROUPS, lastEvent, req>>

\* POST /api/send arrives: the clientGlobal guard, then the isConnected call starts
SendStart(r, payload) ==
    /\ req[r].pc = "idle"
    /\ LET rec == [req[r] EXCEPT !.payload = payload, !.connAtStart = qrRef.connected]
       IN  req' = [req EXCEPT ![r] =
                      IF clientGlobal = "null"
                      THEN Respond([rec EXCEPT !.isReady = "noClient"], 400,
                                   "WhatsApp not connected")
                      ELSE [rec EXCEPT !.pc = "isConnected"]]
    /\ UNCHANGED <<clientGlobal, qrRef, DEFAULT_GROUPS, lastEvent, qrResp>>

\* (mutation) the not-ready response without its return: the handler answers 400
\* and goes on with the campaign
IsConnectedReturnsNoReturn(r, res) ==
    /\ req[r].pc = "isConnected"
    /\ LET rec == [req[r] EXCEPT !.isReady = res]
           raw == GroupsRawOf(rec.payload, DEFAULT_GROUPS)
           answered == IF ReadyFails(res) THEN Respond(rec, 400, "WhatsApp not ready yet")
                       ELSE rec
       IN  req' = [req EXCEPT ![r] =
                      IF Len(raw) = 0
                      THEN Respond(answered, 400, "No group IDs provided")
                      ELSE [answered EXCEPT !.pc = "import",
                                            !.groupsRaw = raw,
                                            !.groups = MapFilterIds(raw),
                                            !.finalCaption =
                                                CaptionParts(rec.payload.text, AFFILIATE_ID)]]
    /\ UNCHANGED <<clientGlobal, qrRef, DEFAULT_GROUPS, lastEvent, qrResp>>

\* isConnected settles: readiness, destination selection and normalization, the
\* caption, then the dynamic import of axios starts
IsConnectedReturns(r, res) ==
    /\ req[r].pc = "isConnected"
    /\ LET rec == [req[r] EXCEPT !.isReady = res]
           raw == GroupsRawOf(rec.payload, DEFAULT_GROUPS)
       IN  req' = [req EXCEPT ![r] =
                      IF ReadyFails(res)
                      THEN Respond(rec, 400, "WhatsApp not ready yet")
                      ELSE IF Len(raw) = 0
                      THEN Respond(rec, 400, "No group IDs provided")
                      ELSE [rec EXCEPT !.pc = "import",
                                       !.groupsRaw = raw,
                                       !.groups = MapFilterIds(raw),
                                       !.finalCaption =
                                           CaptionParts(rec.payload.text, AFFILIATE_ID)]]
    /\ UNCHANGED <<clientGlobal, qrRef, DEFAULT_GROUPS, lastEvent, qrResp>>

\* import("axios") settles: a rejection goes to the handler's catch; else the
\* image fetch starts (imageUrl is never empty: sampleDeal.image is set)
ImportReturns(r, imp) ==
    /\ req[r].pc = "import"
    /\ LET rec == [req[r] EXCEPT !.imported = imp]
       IN  req' = [req EXCEPT ![r] =
                      IF imp = "throw"
                      THEN OuterCatch(rec, "Cannot find package 'axios'")
                      ELSE IF ImageUrlOf(rec.payload) # ""
                      THEN [rec EXCEPT !.pc = "fetch",
                                       !.fetch.url = ImageUrlOf(rec.payload),
                                       !.fetch.count = @ + 1]
                      ELSE LoopAt(rec, 1)]
    /\ UNCHANGED <<clientGlobal, qrRef, DEFAULT_GROUPS, lastEvent, qrResp>>

\* (mutation) base64Image kept in one variable shared by all requests: the
\* assignment is seen by every campaign under way
FetchReturnsSharedImage(r, f) ==
    /\ req[r].pc = "fetch"
    /\ req' = [q \in Reqs |->
                  IF q = r
                  THEN LoopAt([req[r] EXCEPT !.fetch.done = TRUE, !.fetch.result = f,
                                             !.base64Image = Base64Of(f)], 1)
                  ELSE IF req[q].pc \in {"idle", "done"} THEN req[q]
                  ELSE [req[q] EXCEPT !.base64Image = Base64Of(f)]]
    /\ UNCHANGED <<clientGlobal, qrRef, DEFAULT_GROUPS, lastEvent, qrResp>>

\* axios.get settles: base64Image is set once, then the loop begins (the optional
\* delayBefore wait in between changes no state and is part of this step)
FetchReturns(r, f) ==
    /\ req[r].pc = "fetch"
    /\ req' = [req EXCEPT ![r] =
                  LoopAt([req[r] EXCEPT !.fetch.done = TRUE, !.fetch.result = f,
                                        !.base64Image = Base64Of(f)], 1)]
    /\ UNCHANGED <<clientGlobal, qrRef, DEFAULT_GROUPS, lastEvent, qrResp>>

\* (mutation) readiness looked at again before each destination: a campaign whose
\* session has disconnected is cancelled with an error
PreDelayElapsedChecksStatus(r) ==
    /\ req[r].pc = "preDelay"
    /\ req' = [req EXCEPT ![r] =
                  IF ~qrRef.connected
                  THEN Respond(req[r], 400, "WhatsApp not connected")
                  ELSE [req[r] EXCEPT !.pc = "sending",
                                      !.calls = Append(@, [op |-> SendOp(req[r].base64Image),
                                                           to |-> req[r].groups[req[r].i],
                                                           image |-> req[r].base64Image,
                                                           caption |-> req[r].finalCaption,
                                                           result |-> "pending"])]]
    /\ UNCHANGED <<clientGlobal, qrRef, DEFAULT_GROUPS, lastEvent, qrResp>>

\* (mutation) the send call started but not awaited: the handler goes straight on
\* to the post-send delay
PreDelayElapsedNoAwait(r) ==
    /\ req[r].pc = "preDelay"
    /\ req' = [req EXCEPT ![r] =
                  [req[r] EXCEPT !.pc = "postDelay",
                                 !.calls = Append(@, [op |-> SendOp(req[r].base64Image),
                                                      to |-> req[r].groups[req[r].i],
                                                      image |-> req[r].base64Image,
                                                      caption |-> req[r].finalCaption,
                                                      result |-> "pending"])]]
    /\ UNCHANGED <<clientGlobal, qrRef, DEFAULT_GROUPS, lastEvent, qrResp>>

\* the pre-send delay elapses and the send call to groups[i] starts
PreDelayElapsed(r) ==
    /\ req[r].pc = "preDelay"
    /\ req' = [req EXCEPT ![r] =
                  [req[r] EXCEPT !.pc = "sending",
                                 !.calls = Append(@, [op |-> SendOp(req[r].base64Image),
                                                      to |-> req[r].groups[req[r].i],
                                                      image |-> req[r].base64Image,
                                                      caption |-> req[r].finalCaption,
                                                      result |-> "pending"])]]
    /\ UNCHANGED <<clientGlobal, qrRef, DEFAULT_GROUPS, lastEvent, qrResp>>

\* (mutation) a rejected send call makes the handler mark the session disconnected
SendReturnsMarksDisconnected(r, res) ==
    /\ req[r].pc = "sending"
    /\ req' = [req EXCEPT ![r] =
                  [req[r] EXCEPT !.calls[Len(req[r].calls)].result = res,
                                 !.pc = "postDelay"]]
    /\ qrRef' = IF res = "throw" THEN [qrRef EXCEPT !.connected = FALSE] ELSE qrRef
    /\ UNCHANGED <<clientGlobal, DEFAULT_GROUPS, lastEvent, qrResp>>

\* the send call settles; its result is logged and the post-send delay starts
SendReturns(r, res) ==
    /\ req[r].pc = "sending"
    /\ LET rec == [req[r] EXCEPT !.calls[Len(req[r].calls)].result = res]
       IN  req' = [req EXCEPT ![r] =
                      IF SendAborts(res)
                      THEN Respond(rec, 500, "send failed")
                      ELSE [rec EXCEPT !.pc = "postDelay"]]
    /\ UNCHANGED <<clientGlobal, qrRef, DEFAULT_GROUPS, lastEvent, qrResp>>

\* (mutation) the image fetched inside the loop, once per destination
PostDelayElapsedRefetch(r) ==
    /\ req[r].pc = "postDelay"
    /\ req' = [req EXCEPT ![r] =
                  IF NextIndex(req[r].i) <= Len(req[r].groups)
                  THEN [req[r] EXCEPT !.pc = "fetch", !.i = NextIndex(req[r].i),
                                      !.fetch.count = @ + 1]
                  ELSE LoopAt(req[r], NextIndex(req[r].i))]
    /\ UNCHANGED <<clientGlobal, qrRef, DEFAULT_GROUPS, lastEvent, qrResp>>

\* the post-send delay elapses: next destination, or the 200 response
PostDelayElapsed(r) ==
    /\ req[r].pc = "postDelay"
    /\ req' = [req EXCEPT ![r] = LoopAt(req[r], NextIndex(req[r].i))]
    /\ UNCHANGED <<clientGlobal, qrRef, DEFAULT_GROUPS, lastEvent, qrResp>>

\* the response has gone out; the slot takes the next request
RequestEnds(r) ==
    /\ req[r].pc = "done"
    /\ req' = [req EXCEPT ![r] = IdleReq]
    /\ UNCHANGED <<clientGlobal, qrRef, DEFAULT_GROUPS, lastEvent, qrResp>>

\* what clientGlobal.listChats settles to: a list of chats, or a rejection
ListChatsResults == {"ok", "throw"}

\* (mutation) GET /api/groups guarded by the status flag instead of the handle
ListStartGuardsOnStatus ==
    /\ listing.pc = "idle"
    /\ listing' = IF ~qrRef.connected
                  THEN [listing EXCEPT !.pc = "done",
                            !.resp = [status |-> 400, error |-> "WhatsApp not connected"]]
                  ELSE [listing EXCEPT !.pc = "listChats", !.called = TRUE]
    /\ UNCHANGED <<clientGlobal, qrRef, DEFAULT_GROUPS, lastEvent, qrResp, req, afterFailure,
                   norm, startup, compose, delays>>

\* GET /api/groups arrives: the clientGlobal guard, then the listChats call starts
ListStart ==
    /\ listing.pc = "idle"
    /\ listing' = IF clientGlobal = "null"
                  THEN [listing EXCEPT !.pc = "done",
                            !.resp = [status |-> 400, error |-> "WhatsApp not connected"]]
                  ELSE [listing EXCEPT !.pc = "listChats", !.called = TRUE]
    /\ UNCHANGED <<clientGlobal, qrRef, DEFAULT_GROUPS, lastEvent, qrResp, req, afterFailure,
                   norm, startup, compose, delays>>

\* listChats settles: the formatted groups, or a 500 carrying the error
ListChatsReturns(res) ==
    /\ listing.pc = "listChats"
    /\ listing' = [listing EXCEPT !.pc = "done",
                       !.resp = IF res = "ok" THEN [status |-> 200, error |-> ""]
                                ELSE [status |-> 500, error |-> "listChats failed"]]
    /\ UNCHANGED <<clientGlobal, qrRef, DEFAULT_GROUPS, lastEvent, qrResp, req, afterFailure,
                   norm, startup, compose, delays>>

\* the listing's response has gone out
ListEnds ==
    /\ listing.pc = "done"
    /\ listing' = NoListing
    /\ UNCHANGED <<clientGlobal, qrRef, DEFAULT_GROUPS, lastEvent, qrResp, req, afterFailure,
                   norm, startup, compose, delays>>

\* history: which callback ran last (and with which state name), the status
\* before it and the artifact stored when it had run, whether a login challenge
\* has been issued so far, the number of challenges since the session last
\* connected (counted up to MaxChallenges) and the artifact of the latest one
RecordedAs(kind, state) ==
    /\ lastEvent' =
           [kind |-> kind, code |-> qrRef'.code,
            challenged |-> lastEvent.challenged \/ kind = "catchQR",
            state |-> state, before |-> qrRef,
            challenges |-> IF kind \in {"onConnected", "ready"} THEN 0
                           ELSE IF kind = "catchQR" /\ lastEvent.challenges < MaxChallenges
                           THEN lastEvent.challenges + 1
                           ELSE lastEvent.challenges,
            artifact |-> IF kind = "catchQR" THEN qrRef'.code ELSE lastEvent.artifact]
    /\ UNCHANGED <<qrResp, afterFailure, norm, listing, startup, compose, delays>>

Recorded(kind) == RecordedAs(kind, "")

NotRecorded ==
    UNCHANGED <<lastEvent, qrResp, afterFailure, norm, listing, startup, compose, delays>>

\* a step of a request handler where the outcomes of requests are not recorded
OutcomeNotRecorded == UNCHANGED <<afterFailure, norm, listing, startup, compose, delays>>

Dispatch(r) ==
    \/ \E p \in Payloads : SendStart(r, p)
    \/ \E res \in IsConnectedResults : IsConnectedReturns(r, res)
    \/ \E imp \in ImportResults : ImportReturns(r, imp)
    \/ \E f \in FetchResults : FetchReturns(r, f)
    \/ PreDelayElapsed(r)
    \/ \E res \in SendResults : SendReturns(r, res)
    \/ PostDelayElapsed(r)
    \/ RequestEnds(r)

\* one campaign at a time, with the session callbacks arriving at any moment
Next ==
    \/ (\E b \in Base64Qrs, u \in UrlCodes : CatchQR(b, "", u)) /\ NotRecorded
    \/ (\E st \in StateNames : OnStateChange(st)) /\ NotRecorded
    \/ OnConnected /\ NotRecorded
    \/ OnLogout /\ NotRecorded
    \/ ClientReady /\ NotRecorded
    \/ Dispatch("a") /\ OutcomeNotRecorded

Spec == Init /\ [][Next]_vars

\* two requests that differ in destinations, message and image
PayloadA ==
    [groupIds |-> [kind |-> "array", list |-> <<Str123>>], image |-> "", img |-> "",
     text |-> [NoText EXCEPT !.message = "Deal A"]]

PayloadB ==
    [groupIds |-> [kind |-> "array", list |-> <<Str456gus, Str123>>],
     image |-> "https://img.example/deal.jpg", img |-> "",
     text |-> [NoText EXCEPT !.message = "Deal B", !.price = "999"]]

ConcPayloads == {PayloadA, PayloadB}

ConcDispatch(r) ==
    \/ \E p \in ConcPayloads : SendStart(r, p)
    \/ \E res \in IsConnectedResults : IsConnectedReturns(r, res)
    \/ \E imp \in ImportResults : ImportReturns(r, imp)
    \/ \E f \in FetchResults : FetchReturns(r, f)
    \/ PreDelayElapsed(r)
    \/ \E res \in SendResults : SendReturns(r, res)
    \/ PostDelayElapsed(r)
    \/ RequestEnds(r)

\* two request slots served by the one event loop: the steps of two campaigns
\* interleave at every await
ConcNext ==
    \/ ClientReady /\ NotRecorded
    \/ ConcDispatch("a") /\ OutcomeNotRecorded
    \/ ConcDispatch("b") /\ OutcomeNotRecorded

ConcSpec == Init /\ [][ConcNext]_vars

\* history: a request has just been answered with a 500
FailureRecorded(r) ==
    /\ afterFailure' = [afterFailure EXCEPT !.failed = @ \/ (/\ req'[r].resp.status = 500
                                                             /\ req[r].resp.status # 500)]
    /\ UNCHANGED <<norm, listing, startup, compose, delays>>

\* history: a status read made after a request was answered with a 500
ReadRecorded ==
    /\ afterFailure' = [afterFailure EXCEPT !.read = @ \/ afterFailure.failed]
    /\ UNCHANGED <<norm, listing, startup, compose, delays>>

\* requests one after the other and status reads, with the failures kept
FailNext ==
    \/ ClientReady /\ NotRecorded
    \/ ApiQr /\ ReadRecorded
    \/ ConcDispatch("a") /\ FailureRecorded("a")

FailSpec == Init /\ [][FailNext]_vars

\* one campaign at a time, with what the claim of progress supposes: every
\* pending call (isConnected, import, axios.get, the send calls) settles and
\* every timer fires.  A new request arriving and the slot being freed are not
\* forced.
LiveNext ==
    \/ ClientReady /\ NotRecorded
    \/ Dispatch("a") /\ OutcomeNotRecorded

LiveSpec ==
    /\ Init /\ [][LiveNext]_vars
    /\ WF_vars((\E res \in IsConnectedResults : IsConnectedReturns("a", res))
               /\ OutcomeNotRecorded)
    /\ WF_vars((\E imp \in ImportResults : ImportReturns("a", imp)) /\ OutcomeNotRecorded)
    /\ WF_vars((\E f \in FetchResults : FetchReturns("a", f)) /\ OutcomeNotRecorded)
    /\ WF_vars(PreDelayElapsed("a") /\ OutcomeNotRecorded)
    /\ WF_vars((\E res \in SendResults : SendReturns("a", res)) /\ OutcomeNotRecorded)
    /\ WF_vars(PostDelayElapsed("a") /\ OutcomeNotRecorded)

\* the three HTTP operations and the session callbacks, arriving in any order
ApiNext ==
    \/ (\E b \in Base64Qrs, u \in UrlCodes : CatchQR(b, "", u)) /\ NotRecorded
    \/ (\E st \in StateNames : OnStateChange(st)) /\ NotRecorded
    \/ OnConnected /\ NotRecorded
    \/ OnLogout /\ NotRecorded
    \/ ClientReady /\ NotRecorded
    \/ ApiQr /\ OutcomeNotRecorded
    \/ ListStart
    \/ \E res \in ListChatsResults : ListChatsReturns(res)
    \/ ListEnds
    \/ ConcDispatch("a") /\ OutcomeNotRecorded

ApiSpec == Init /\ [][ApiNext]_vars

\* history: the pre-send delay that has just elapsed, and the longest so far
PreDelayRecorded ==
    /\ \E num \in RandomNums :
           delays' = [delays EXCEPT !.pre = PreDelayOf(num),
                                    !.maxPre = IF PreDelayOf(num) > @ THEN PreDelayOf(num)
                                               ELSE @]
    /\ UNCHANGED <<afterFailure, norm, listing, startup, compose>>

\* history: the post-send delay that has just elapsed, and the shortest so far
\* (0 standing for none yet)
PostDelayRecorded ==
    /\ \E num \in RandomNums :
           delays' = [delays EXCEPT !.post = PostDelayOf(num),
                                    !.minPost = IF @ = 0 \/ PostDelayOf(num) < @
                                                THEN PostDelayOf(num) ELSE @]
    /\ UNCHANGED <<afterFailure, norm, listing, startup, compose>>

\* campaigns one after the other, with the delays their timers were set to
DelayNext ==
    \/ ClientReady /\ NotRecorded
    \/ (\E p \in ConcPayloads : SendStart("a", p)) /\ OutcomeNotRecorded
    \/ (\E res \in IsConnectedResults : IsConnectedReturns("a", res)) /\ OutcomeNotRecorded
    \/ (\E imp \in ImportResults : ImportReturns("a", imp)) /\ OutcomeNotRecorded
    \/ (\E f \in FetchResults : FetchReturns("a", f)) /\ OutcomeNotRecorded
    \/ PreDelayElapsed("a") /\ PreDelayRecorded
    \/ (\E res \in SendResults : SendReturns("a", res)) /\ OutcomeNotRecorded
    \/ PostDelayElapsed("a") /\ PostDelayRecorded
    \/ RequestEnds("a") /\ OutcomeNotRecorded

DelaySpec == Init /\ [][DelayNext]_vars

\* what the steps of the startup sequence leave alone
StartupOnly ==
    UNCHANGED <<clientGlobal, qrRef, DEFAULT_GROUPS, lastEvent, qrResp, req, afterFailure,
                norm, listing, compose, delays>>

\* the startup send call of the given kind starts
StartCall(rec, op) ==
    [rec EXCEPT !.pc = IF op = "sendImage" THEN "sendingImage" ELSE "sendingText",
                !.calls = Append(@, [op |-> op, to |-> rec.chatId.s,
                                     caption |-> CreateMessage(SampleDeal, AFFILIATE_ID),
                                     result |-> "pending"])]

\* (mutation) the text is sent whether or not the image went out
StartAfterImageAlwaysText(rec) == StartCall(rec, "sendText")

\* if (!sent): the text send starts, else the sequence is over
StartAfterImage(rec) ==
    IF ~rec.sent THEN StartCall(rec, "sendText") ELSE [rec EXCEPT !.pc = "end"]

\* wppconnect.create has resolved (ClientReady): the listChats call starts
StartupBegins ==
    /\ startup.pc = "init"
    /\ startup' = [startup EXCEPT !.pc = "listChats"]
    /\ UNCHANGED <<lastEvent, qrResp, afterFailure, norm, listing, compose, delays>>

\* listChats settles (its outcome is only logged); then the first configured
\* destination is normalized and, when there is one, the 3 s wait starts
StartListReturns(res) ==
    /\ startup.pc = "listChats"
    /\ LET chatId == IF Len(DEFAULT_GROUPS) > 0 THEN normalizeGroupId(DEFAULT_GROUPS[1])
                     ELSE NullId
       IN  startup' = IF Len(DEFAULT_GROUPS) > 0 /\ IdTruthy(chatId)
                      THEN [startup EXCEPT !.pc = "wait", !.chatId = chatId]
                      ELSE [startup EXCEPT !.pc = "end"]
    /\ StartupOnly

\* the wait is over: startCaption is composed and the import of axios starts
\* (sampleDeal.image is set)
StartWaitElapsed ==
    /\ startup.pc = "wait"
    /\ startup' = [startup EXCEPT !.pc = "import"]
    /\ StartupOnly

\* import("axios") settles: a rejection is caught by the inner catch
StartImportReturns(imp) ==
    /\ startup.pc = "import"
    /\ startup' = IF imp = "throw"
                  THEN StartAfterImage([startup EXCEPT !.fetched = "importThrow"])
                  ELSE [startup EXCEPT !.pc = "fetch"]
    /\ StartupOnly

\* axios.get settles: a rejection, or a response without data (Buffer.from
\* throws), is caught by the inner catch; else the image send starts
StartFetchReturns(f) ==
    /\ startup.pc = "fetch"
    /\ startup' = IF f.ok /\ f.hasData
                  THEN StartCall([startup EXCEPT !.fetched = "ok"], "sendImage")
                  ELSE StartAfterImage([startup EXCEPT !.fetched = "failed"])
    /\ StartupOnly

\* the image send settles: sent is set only for a result without erro
StartImageReturns(res) ==
    /\ startup.pc = "sendingImage"
    /\ startup' = StartAfterImage([startup EXCEPT !.calls[Len(startup.calls)].result = res,
                                                  !.sent = (res = "ok")])
    /\ StartupOnly

\* the text send settles; its outcome is only logged
StartTextReturns(res) ==
    /\ startup.pc = "sendingText"
    /\ startup' = [startup EXCEPT !.calls[Len(startup.calls)].result = res, !.pc = "end"]
    /\ StartupOnly

\* values of the environment variable for the startup send: unset, two
\* destinations, and a blank first entry
StartGroupsEnvs == RawGroupsEnvs \cup {<<" ", ",">> \o Str123}

StartInit ==
    /\ clientGlobal = "null"
    /\ qrRef = [code |-> NullCode, connected |-> FALSE]
    /\ DEFAULT_GROUPS \in {DefaultGroupsOf(raw) : raw \in StartGroupsEnvs}
    /\ lastEvent = NoEvent
    /\ qrResp = NoQrResp
    /\ req = [r \in Reqs |-> IdleReq]
    /\ afterFailure = NoFailure
    /\ norm = NoNorm
    /\ listing = NoListing
    /\ startup = NoStartup
    /\ compose = NoCompose
    /\ delays = NoDelays

\* the startup sequence, with the session callbacks arriving at any moment
StartNext ==
    \/ (\E b \in Base64Qrs, u \in UrlCodes : CatchQR(b, "", u)) /\ NotRecorded
    \/ (\E st \in StateNames : OnStateChange(st)) /\ NotRecorded
    \/ OnConnected /\ NotRecorded
    \/ OnLogout /\ NotRecorded
    \/ ClientReady /\ StartupBegins
    \/ \E res \in ListChatsResults : StartListReturns(res)
    \/ StartWaitElapsed
    \/ \E imp \in ImportResults : StartImportReturns(imp)
    \/ \E f \in FetchResults : StartFetchReturns(f)
    \/ \E res \in SendResults : StartImageReturns(res)
    \/ \E res \in SendResults : StartTextReturns(res)

StartSpec == StartInit /\ [][StartNext]_vars

\* the text fields a request may carry: each present or absent
Texts ==
    [message : {"", "Mega Sale"}, title : {"", "Deal of the day"}, body : {"", "Only today"},
     description : {"", "In stock"}, details : {"", "Black, 42mm"},
     link : {"", "https://shop.example/p/1"}, url : {"", "https://shop.example/u/1"},
     urgency : {"", "Ends at midnight"}, price : {"", "999"}]

AffiliateIds == {"", "aff-21"}

\* the two composition helpers on their own: composed once, and once more from
\* the same inputs
ComposeInit ==
    /\ clientGlobal = "null"
    /\ qrRef = [code |-> NullCode, connected |-> FALSE]
    /\ DEFAULT_GROUPS = <<>>
    /\ lastEvent = NoEvent
    /\ qrResp = NoQrResp
    /\ req = [r \in Reqs |-> IdleReq]
    /\ afterFailure = NoFailure
    /\ norm = NoNorm
    /\ listing = NoListing
    /\ startup = NoStartup
    /\ delays = NoDelays
    /\ \E text \in Texts, aff \in AffiliateIds :
           compose = [NoCompose EXCEPT !.pc = "inputs", !.text = text, !.affiliateId = aff]

ComposeOnce ==
    /\ compose.pc = "inputs"
    /\ compose' = [compose EXCEPT !.pc = "once",
                       !.caption = CaptionParts(compose.text, compose.affiliateId),
                       !.message = CreateMessage(SampleDeal, compose.affiliateId)]
    /\ UNCHANGED <<clientGlobal, qrRef, DEFAULT_GROUPS, lastEvent, qrResp, req, afterFailure,
                   norm, listing, startup, delays>>

ComposeAgain ==
    /\ compose.pc = "once"
    /\ compose' = [compose EXCEPT !.pc = "again",
                       !.captionAgain = CaptionParts(compose.text, compose.affiliateId),
                       !.messageAgain = CreateMessage(SampleDeal, compose.affiliateId)]
    /\ UNCHANGED <<clientGlobal, qrRef, DEFAULT_GROUPS, lastEvent, qrResp, req, afterFailure,
                   norm, listing, startup, delays>>

ComposeNext == ComposeOnce \/ ComposeAgain

ComposeSpec == ComposeInit /\ [][ComposeNext]_vars

RECURSIVE Concat(_)
Concat(pieces) == IF pieces = <<>> THEN <<>> ELSE Head(pieces) \o Concat(Tail(pieces))

\* pieces of raw destination strings: blank, digit, the suffix, a cut-off suffix
Pieces == {<<" ">>, <<"1">>, Suffix, <<"@", "g">>}

\* the raw strings normalizeGroupId is applied to ("" included)
NormInputs == {Concat(q) : q \in SeqsUpTo(Pieces, MaxPieces)}

\* normalizeGroupId on its own: one raw string, normalized and normalized again
NormInit ==
    /\ clientGlobal = "null"
    /\ qrRef = [code |-> NullCode, connected |-> FALSE]
    /\ DEFAULT_GROUPS \in {DefaultGroupsOf(raw) : raw \in RawGroupsEnvs}
    /\ lastEvent = NoEvent
    /\ qrResp = NoQrResp
    /\ req = [r \in Reqs |-> IdleReq]
    /\ afterFailure = NoFailure
    /\ listing = NoListing
    /\ startup = NoStartup
    /\ compose = NoCompose
    /\ delays = NoDelays
    /\ \E raw \in NormInputs :
           norm = [pc |-> "raw", raw |-> raw, once |-> NullId, twice |-> NullId]

NormalizeOnce ==
    /\ norm.pc = "raw"
    /\ norm' = [norm EXCEPT !.pc = "once", !.once = normalizeGroupId(norm.raw)]
    /\ UNCHANGED <<clientGlobal, qrRef, DEFAULT_GROUPS, lastEvent, qrResp, req, afterFailure,
                   listing, startup, compose, delays>>

NormalizeTwice ==
    /\ norm.pc = "once"
    /\ norm' = [norm EXCEPT !.pc = "twice", !.twice = Renormalized(norm.once)]
    /\ UNCHANGED <<clientGlobal, qrRef, DEFAULT_GROUPS, lastEvent, qrResp, req, afterFailure,
                   listing, startup, compose, delays>>

NormNext == NormalizeOnce \/ NormalizeTwice

NormSpec == NormInit /\ [][NormNext]_vars

\* the session callbacks and the status read
SessionNext ==
    \/ (\E b \in Base64Qrs, u \in UrlCodes : CatchQR(b, "", u)) /\ Recorded("catchQR")
    \/ \E st \in StateNames : OnStateChange(st) /\ RecordedAs("onStateChange", st)
    \/ OnConnected /\ Recorded("onConnected")
    \/ OnLogout /\ Recorded("onLogout")
    \/ ClientReady /\ Recorded("ready")
    \/ ApiQr /\ OutcomeNotRecorded

SessionSpec == Init /\ [][SessionNext]_vars

----------------------------------------------------------------------------
(* Vocabulary of the properties *)

\* the destination a raw entry stands for: trimmed, carrying the suffix once
DestinationOf(e) ==
    LET t == Trim(e) IN IF Includes(t, Suffix) THEN t ELSE t \o Suffix

RECURSIVE ExpectedDests(_)
\* the destinations of a raw list: empty-string entries dropped, order and
\* repetitions kept
ExpectedDests(list) ==
    IF list = <<>> THEN <<>>
    ELSE (IF Head(list) = <<>> THEN <<>> ELSE <<DestinationOf(Head(list))>>)
         \o ExpectedDests(Tail(list))

\* the request itself supplies a non-empty destination list
SuppliesList(r) ==
    req[r].payload.groupIds.kind = "array" /\ req[r].payload.groupIds.list # <<>>

SuppliedList(r) == req[r].payload.groupIds.list

\* the list the campaign is to address: the supplied one, else the defaults
EffectiveList(r) == IF SuppliesList(r) THEN SuppliedList(r) ELSE DEFAULT_GROUPS

Failed(call) == call.result \in {"erro", "throw"}

Completed(r) == req[r].pc = "done" /\ req[r].resp.status = 200

\* the hand-over from the readiness check to the campaign happened
PastReadiness(r) == req[r].isReady = "true"

\* minimum length of a usable image payload (the drafts' size check)
MinImageLen == 500

----------------------------------------------------------------------------
(* C1 *)

\* C1 (as stated, its zero-calls part): a dispatch that starts while the status
\* flag connected is false makes no sendText / sendImage call.
C1_NotReadyByStatusFlag ==
    \A r \in Reqs :
        (req[r].pc # "idle" /\ ~req[r].connAtStart) => req[r].calls = <<>>

\* C1 (amended): a dispatch that finds no client handle, or whose isConnected()
\* call returns false or throws, is refused with a 400 and makes no send call and
\* no image fetch, whatever the request contains.
C1_NotReadyByClient ==
    \A r \in Reqs :
        /\ req[r].isReady = "noClient" =>
               /\ req[r].pc = "done"
               /\ req[r].resp = [status |-> 400, error |-> "WhatsApp not connected"]
               /\ req[r].calls = <<>> /\ ~req[r].fetch.done
        /\ req[r].isReady \in {"false", "throw"} =>
               /\ req[r].pc = "done"
               /\ req[r].resp = [status |-> 400, error |-> "WhatsApp not ready yet"]
               /\ req[r].calls = <<>> /\ ~req[r].fetch.done

C1_Witness ==
    \E r \in Reqs :
        /\ req[r].isReady = "false" /\ req[r].pc = "done"
        /\ SuppliesList(r) /\ req[r].payload.image # ""

----------------------------------------------------------------------------
(* C2 *)

\* C2 (as stated): a completed campaign over a non-empty supplied list, started
\* connected, has made exactly one settled send per list entry, in list order.
C2_OnePerListEntry ==
    \A r \in Reqs :
        (Completed(r) /\ SuppliesList(r) /\ req[r].connAtStart) =>
            /\ Len(req[r].calls) = Len(SuppliedList(r))
            /\ \A k \in 1..Len(req[r].calls) :
                   /\ req[r].calls[k].to = DestinationOf(SuppliedList(r)[k])
                   /\ req[r].calls[k].result # "pending"

\* C2 (amended): the sends of a campaign over a supplied list go, in list order,
\* to the entries that are not the empty string, one send per such entry with
\* duplicates kept; a completed campaign has one settled send for each of them.
C2_OnePerKeptEntry ==
    \A r \in Reqs :
        (SuppliesList(r) /\ PastReadiness(r)) =>
            LET exp == ExpectedDests(SuppliedList(r))
                n == Len(req[r].calls)
            IN  /\ n <= Len(exp)
                /\ \A k \in 1..n : req[r].calls[k].to = exp[k]
                /\ \A k \in 1..(n - 1) : req[r].calls[k].result # "pending"
                /\ Completed(r) =>
                       n = Len(exp) /\ \A k \in 1..n : req[r].calls[k].result # "pending"
                /\ (req[r].pc = "done" /\ req[r].imported = "ok") => Completed(r)

C2_Witness ==
    \E r \in Reqs :
        /\ Completed(r) /\ req[r].connAtStart
        /\ SuppliedList(r) = <<Str123, Str123>>
        /\ Len(req[r].calls) = 2
        /\ req[r].calls[1].to = Str123 \o Suffix
        /\ req[r].calls[2].to = Str123 \o Suffix

----------------------------------------------------------------------------
(* C3 *)

\* C3: a failed send (rejected, or a result with erro: true) to one destination
\* never ends the campaign: no 500 response follows from it, and the campaign
\* ends only after every destination of its list has been attempted.
C3_ErrorsIsolated ==
    \A r \in Reqs :
        (\E k \in 1..Len(req[r].calls) : Failed(req[r].calls[k])) =>
            /\ req[r].resp.status \in {0, 200}
            /\ req[r].pc = "done" =>
                   /\ req[r].resp.status = 200
                   /\ Len(req[r].calls) = Len(ExpectedDests(EffectiveList(r)))

C3_Witness ==
    \E r \in Reqs :
        /\ Completed(r)
        /\ Len(req[r].calls) = 2
        /\ req[r].calls[1].result = "throw"
        /\ req[r].calls[2].result = "ok"

----------------------------------------------------------------------------
(* C4 *)

\* C4 (as stated): once an image send to a destination has failed and the
\* handler has moved on, the next call made was a text send to that destination.
C4_TextFallbackAfterImageFailure ==
    \A r \in Reqs :
        \A k \in 1..Len(req[r].calls) :
            (/\ req[r].calls[k].op = "sendImage"
             /\ Failed(req[r].calls[k])
             /\ req[r].pc \in {"postDelay", "preDelay", "sending", "done"}) =>
                /\ k < Len(req[r].calls)
                /\ req[r].calls[k + 1].op = "sendText"
                /\ req[r].calls[k + 1].to = req[r].calls[k].to

----------------------------------------------------------------------------
(* C5 *)

\* the fetch gave no usable image: it failed, or its payload is empty or short
Unusable(f) ==
    \/ ~f.ok
    \/ ~f.hasData
    \/ f.bytes = 0
    \/ DataUriPrefixLen + Base64Len(f.bytes) < MinImageLen

\* C5 (as stated): after a failed fetch or an empty / undersized payload, no
\* destination gets a sendImage call, and the campaign completes over all of them.
C5_UnusableImageMeansTextOnly ==
    \A r \in Reqs :
        (req[r].fetch.done /\ Unusable(req[r].fetch.result)) =>
            /\ \A k \in 1..Len(req[r].calls) : req[r].calls[k].op = "sendText"
            /\ req[r].pc = "done" => Completed(r)

----------------------------------------------------------------------------
(* C6 *)

\* C6 (as stated): when every entry of the campaign's list is empty or blank, the
\* dispatch ends in a 400 error and has sent nothing.
C6_NoDestinationsIsAnError ==
    \A r \in Reqs :
        (/\ req[r].pc = "done" /\ PastReadiness(r) /\ req[r].imported = "ok"
         /\ \A k \in 1..Len(EffectiveList(r)) : Trim(EffectiveList(r)[k]) = <<>>) =>
            /\ req[r].resp.status = 400
            /\ req[r].calls = <<>>

----------------------------------------------------------------------------
(* C7 *)

\* C7 (as stated): the request ["123", "456@g.us"] without an image, on a
\* connected session, ends with exactly two text sends, 123@g.us then 456@g.us.
C7_NoImageMeansTextSends ==
    \A r \in Reqs :
        (/\ req[r].pc = "done" /\ PastReadiness(r) /\ req[r].connAtStart
         /\ req[r].imported = "ok"
         /\ req[r].payload.groupIds = [kind |-> "array", list |-> <<Str123, Str456gus>>]
         /\ req[r].payload.image = "" /\ req[r].payload.img = "") =>
            /\ Len(req[r].calls) = 2
            /\ req[r].calls[1].op = "sendText" /\ req[r].calls[1].to = Str123 \o Suffix
            /\ req[r].calls[2].op = "sendText" /\ req[r].calls[2].to = Str456gus

----------------------------------------------------------------------------
(* C8 *)

\* C8: a status read made while connected is true answers "connected" and
\* carries no login artifact, whatever artifact is still stored.
C8_ConnectedHidesArtifact ==
    qrResp.asked /\ qrResp.seen.connected =>
        qrResp.body = [status |-> "connected", qr |-> NullCode]

C8_Witness ==
    /\ qrResp.asked /\ qrResp.seen.connected
    /\ qrResp.seen.code.kind = "qrserver-url"
    /\ qrResp.after.kind = "onConnected"

----------------------------------------------------------------------------
(* C9 *)

\* C9: the status read is a function of the status: connected when connected;
\* else the stored artifact when there is one; else waiting.  Before any
\* callback the status is {connected: false, code: null} and the read is waiting.
C9_StatusReadIsOneOfThree ==
    /\ qrResp.asked =>
           /\ qrResp.body.status \in {"connected", "qr", "waiting"}
           /\ qrResp.body.status = "connected" <=> qrResp.seen.connected
           /\ qrResp.body.status = "qr" <=>
                  ~qrResp.seen.connected /\ qrResp.seen.code # NullCode
           /\ qrResp.body.status = "qr" => qrResp.body.qr = qrResp.seen.code
           /\ qrResp.body.status # "qr" => qrResp.body.qr = NullCode
           /\ qrResp.after = NoEvent =>
                  /\ qrResp.seen = [code |-> NullCode, connected |-> FALSE]
                  /\ qrResp.body.status = "waiting"
    /\ lastEvent = NoEvent => qrRef = [code |-> NullCode, connected |-> FALSE]

C9_Witness ==
    /\ qrResp.asked /\ ~qrResp.seen.connected
    /\ qrResp.seen.code.kind = "raw"
    /\ qrResp.body = [status |-> "qr", qr |-> qrResp.seen.code]

----------------------------------------------------------------------------
(* C10 *)

\* C10 (as stated): a status read made right after a login challenge stored an
\* artifact finds connected false and answers challenge-pending with that artifact.
C10_ChallengeMakesPending ==
    (qrResp.asked /\ qrResp.after.kind = "catchQR" /\ qrResp.after.code # NullCode) =>
        /\ ~qrResp.seen.connected
        /\ qrResp.body = [status |-> "qr", qr |-> qrResp.after.code]

----------------------------------------------------------------------------
(* C11 *)

\* C11: an onStateChange("DISCONNECTED" / "UNPAIRED") or onLogout callback sets
\* connected to false and leaves the stored artifact as it was; the stored
\* artifact differs after a step only when that step is a catchQR callback.
C11_DisconnectKeepsArtifact ==
    [][/\ ((\E st \in {"DISCONNECTED", "UNPAIRED"} : OnStateChange(st)) \/ OnLogout) =>
              (~qrRef'.connected /\ qrRef'.code = qrRef.code)
       /\ qrRef'.code # qrRef.code => lastEvent'.kind = "catchQR"]_vars

C11_Witness ==
    /\ lastEvent.kind = "onLogout"
    /\ ~qrRef.connected
    /\ qrRef.code.kind = "qrserver-url"

----------------------------------------------------------------------------
(* C12 *)

\* C12 (as stated): whenever an artifact is stored, connected is false.
C12_ArtifactOnlyWhileDisconnected ==
    qrRef.code # NullCode => ~qrRef.connected

\* C12 (amended): whenever an artifact is stored, a login challenge has been
\* issued; connected may be true or false (the artifact stays stored, stale,
\* after the session connects).
C12_ArtifactOnlyAfterChallenge ==
    qrRef.code # NullCode => lastEvent.challenged

C12_Witness ==
    /\ qrRef.code # NullCode /\ qrRef.connected
    /\ lastEvent.kind = "onConnected" /\ lastEvent.challenged

----------------------------------------------------------------------------
(* C13 *)

\* number of places of s at which sub occurs
Occurrences(s, sub) ==
    Cardinality({k \in 0..(Len(s) - Len(sub)) : SubSeq(s, k + 1, k + Len(sub)) = sub})

----------------------------------------------------------------------------
(* C14 *)

\* C14: a ready dispatch whose request has no groupIds, a groupIds that is not an
\* array, or an empty array addresses the configured defaults, in their order;
\* with no defaults configured it ends in the 400 "No group IDs provided" with
\* no send and no fetch; a dispatch with a non-empty supplied list sends only to
\* destinations of that list.
C14_DefaultsOnlyWhenOmitted ==
    \A r \in Reqs :
        LET n == Len(req[r].calls) IN
        /\ (PastReadiness(r) /\ ~SuppliesList(r) /\ DEFAULT_GROUPS # <<>>) =>
               LET exp == ExpectedDests(DEFAULT_GROUPS)
               IN  /\ req[r].groupsRaw = DEFAULT_GROUPS
                   /\ n <= Len(exp)
                   /\ \A k \in 1..n : req[r].calls[k].to = exp[k]
                   /\ (req[r].pc = "done" /\ req[r].imported = "ok") =>
                          Completed(r) /\ n = Len(exp)
        /\ (PastReadiness(r) /\ ~SuppliesList(r) /\ DEFAULT_GROUPS = <<>>) =>
               /\ req[r].pc = "done"
               /\ req[r].resp = [status |-> 400, error |-> "No group IDs provided"]
               /\ req[r].calls = <<>> /\ ~req[r].fetch.done
        /\ (PastReadiness(r) /\ SuppliesList(r)) =>
               LET exp == ExpectedDests(SuppliedList(r))
               IN  /\ req[r].groupsRaw = SuppliedList(r)
                   /\ \A k \in 1..n : \E j \in 1..Len(exp) : req[r].calls[k].to = exp[j]

C14_Witness ==
    \E r \in Reqs :
        /\ Completed(r)
        /\ req[r].payload.groupIds = [kind |-> "array", list |-> <<>>]
        /\ Len(req[r].calls) = 2
        /\ req[r].calls[1].to = Str123 \o Suffix
        /\ req[r].calls[2].to = Str456gus

----------------------------------------------------------------------------
(* C15 *)

\* C15: in every step of a campaign: a send call starts only as the pre-send
\* delay of its destination elapses; a send call that settles, with whatever
\* result, is followed by the post-send delay of the same destination; the
\* post-send delay is followed by the pre-send delay of the next destination or,
\* after the last one, by the 200 response; and a pre-send delay begins only from
\* the fetch or from the previous destination's post-send delay.
C15_DelaySendDelay ==
    [][\A r \in Reqs :
          LET a == req[r]
              b == req'[r]
          IN  /\ Len(b.calls) > Len(a.calls) =>
                     /\ a.pc = "preDelay" /\ b.pc = "sending"
                     /\ Len(b.calls) = Len(a.calls) + 1
                     /\ b.calls[Len(b.calls)].to = a.groups[a.i]
              /\ (a.pc = "sending" /\ b.pc # "sending") =>
                     b.pc = "postDelay" /\ b.i = a.i
              /\ (a.pc = "postDelay" /\ b.pc # "postDelay") =>
                     \/ b.pc = "preDelay" /\ b.i = a.i + 1 /\ b.i <= Len(a.groups)
                     \/ b.pc = "done" /\ b.resp.status = 200 /\ a.i = Len(a.groups)
              /\ (b.pc = "preDelay" /\ a.pc # "preDelay") =>
                     a.pc \in {"import", "fetch", "postDelay"}
              /\ (b.pc = "done" /\ a.pc # "done" /\ b.calls # <<>>) =>
                     a.pc = "postDelay"]_vars

C15_Witness ==
    \E r \in Reqs :
        /\ req[r].pc = "postDelay"
        /\ req[r].i = Len(req[r].groups)
        /\ Len(req[r].calls) = 2
        /\ req[r].calls[1].result = "ok"
        /\ req[r].calls[2].result = "throw"

----------------------------------------------------------------------------
(* C16 *)

\* C16: at every moment at most one send call of a campaign is unsettled, it is
\* the latest one, and the handler is then waiting for it; call k goes to
\* destination k; and the loop moves from destination i to i + 1 only in the step
\* in which the post-send delay of i elapses, the call to i having settled.
C16_StrictlySequential ==
    /\ [](\A r \in Reqs :
             LET n == Len(req[r].calls)
             IN  /\ \A k \in 1..(n - 1) : req[r].calls[k].result # "pending"
                 /\ req[r].pc = "sending" <=> (n > 0 /\ req[r].calls[n].result = "pending")
                 /\ \A k \in 1..n : req[r].calls[k].to = req[r].groups[k]
                 /\ req[r].pc = "preDelay" => n = req[r].i - 1
                 /\ req[r].pc \in {"sending", "postDelay"} => n = req[r].i)
    /\ [][\A r \in Reqs :
             (req[r].i >= 1 /\ req'[r].i > req[r].i) =>
                 /\ req[r].pc = "postDelay" /\ req'[r].pc = "preDelay"
                 /\ req'[r].i = req[r].i + 1
                 /\ req[r].calls[req[r].i].result # "pending"]_vars

C16_Witness ==
    \E r \in Reqs :
        /\ req[r].pc = "sending"
        /\ Len(req[r].calls) = 2
        /\ req[r].calls[1].result = "erro"
        /\ req[r].calls[2].result = "pending"

----------------------------------------------------------------------------
(* C17 *)

\* C17: with two campaigns interleaved, every send call of a campaign goes to the
\* destinations of its own list in order, carries the caption built from its own
\* request and the image fetched from its own image URL, a campaign that got
\* through ends with its own 200 after one call per destination, and no step of
\* one campaign changes anything of the other.
C17_CampaignsIndependent ==
    /\ [](\A r \in Reqs :
             (PastReadiness(r) /\ req[r].imported = "ok") =>
                 LET exp == ExpectedDests(EffectiveList(r))
                     n == Len(req[r].calls)
                 IN  /\ n <= Len(exp)
                     /\ \A k \in 1..n :
                            /\ req[r].calls[k].to = exp[k]
                            /\ req[r].calls[k].caption =
                                   CaptionParts(req[r].payload.text, AFFILIATE_ID)
                            /\ req[r].calls[k].image = Base64Of(req[r].fetch.result)
                            /\ req[r].calls[k].op = SendOp(Base64Of(req[r].fetch.result))
                     /\ req[r].pc # "fetch" =>
                            /\ req[r].fetch.done
                            /\ req[r].fetch.url = ImageUrlOf(req[r].payload)
                            /\ req[r].base64Image = Base64Of(req[r].fetch.result)
                     /\ req[r].pc = "done" => Completed(r) /\ n = Len(exp))
    /\ [][\A r \in Reqs :
             req'[r] # req[r] => \A q \in Reqs \ {r} : req'[q] = req[q]]_vars

C17_Witness ==
    /\ Completed("a") /\ req["a"].payload = PayloadA
    /\ req["b"].pc = "sending" /\ req["b"].payload = PayloadB
    /\ Len(req["a"].calls) = 1 /\ Len(req["b"].calls) = 2
    /\ req["a"].calls[1].image # req["b"].calls[2].image
    /\ req["a"].calls[1].caption # req["b"].calls[2].caption

----------------------------------------------------------------------------
(* C18 *)

\* C18 (as stated): a dispatch whose session is ready and whose list has a
\* destination ends with the 200 response.
C18_OnlyPreconditionsFail ==
    \A r \in Reqs :
        (/\ req[r].pc = "done" /\ PastReadiness(r)
         /\ ExpectedDests(EffectiveList(r)) # <<>>) =>
            req[r].resp.status = 200

\* C18 (amended): a dispatch ends with a 400 only when the session is not ready
\* or there is no destination, with a 500 only when an error was raised outside
\* the send calls (the import of the HTTP client failing), and with the 200
\* otherwise: once a send call has been made the only response is the 200,
\* however many of the calls failed.
C18_DeliveryFailuresNeverFail ==
    \A r \in Reqs :
        /\ req[r].calls # <<>> => req[r].resp.status \in {0, 200}
        /\ req[r].pc = "done" =>
               /\ req[r].resp.status \in {200, 400, 500}
               /\ req[r].resp.status = 400 =>
                      \/ req[r].isReady \in {"noClient", "false", "throw"}
                      \/ ExpectedDests(EffectiveList(r)) = <<>>
               /\ req[r].resp.status = 500 <=> req[r].imported = "throw"
               /\ (/\ PastReadiness(r) /\ ExpectedDests(EffectiveList(r)) # <<>>
                   /\ req[r].imported = "ok") =>
                      /\ req[r].resp.status = 200
                      /\ Len(req[r].calls) = Len(ExpectedDests(EffectiveList(r)))

C18_Witness ==
    \E r \in Reqs :
        /\ Completed(r)
        /\ Len(req[r].calls) = 2
        /\ req[r].calls[1].result = "throw"
        /\ req[r].calls[2].result = "erro"

----------------------------------------------------------------------------
(* C19 *)

\* C19: an isConnected() call that throws, and an error raised in the handler
\* outside the guarded calls, each end the request with an error response (400
\* not ready, 500) and without a send; no request is left without a response by
\* an escaped error; and after a 500 the status read answers as ever and a
\* dispatch that meets its preconditions completes.
C19_ErrorsCaughtAtBoundary ==
    /\ \A r \in Reqs :
           /\ req[r].pc # "unhandled"
           /\ req[r].imported = "throw" =>
                  /\ req[r].pc = "done" /\ req[r].resp.status = 500
                  /\ req[r].resp.error # "" /\ req[r].calls = <<>>
           /\ req[r].isReady = "throw" =>
                  /\ req[r].pc = "done"
                  /\ req[r].resp = [status |-> 400, error |-> "WhatsApp not ready yet"]
                  /\ req[r].calls = <<>>
           /\ (/\ afterFailure.failed /\ req[r].pc = "done"
               /\ PastReadiness(r) /\ req[r].imported = "ok") => Completed(r)
    /\ afterFailure.read =>
           qrResp.asked /\ qrResp.body = QrResponse(qrResp.seen)

C19_Witness ==
    /\ afterFailure.failed /\ afterFailure.read
    /\ qrResp.body.status = "connected"
    /\ Completed("a") /\ Len(req["a"].calls) = 2

----------------------------------------------------------------------------
(* C20 *)

\* C20: when every call settles and every timer fires, a request that has
\* started is eventually answered, and when it got past its preconditions and the
\* import it has by then made one settled send call per destination; and while a
\* send call is unsettled the campaign makes no step other than that call
\* settling: no response, no further call, no timeout.
C20_RespondsUnlessCallHangs ==
    /\ \A r \in Reqs : (req[r].pc \notin {"idle", "done"}) ~> (req[r].pc = "done")
    /\ [](\A r \in Reqs :
             (req[r].pc = "done" /\ PastReadiness(r) /\ req[r].imported = "ok") =>
                 /\ Len(req[r].calls) = Len(req[r].groups)
                 /\ \A k \in 1..Len(req[r].calls) : req[r].calls[k].result # "pending")
    /\ [][\A r \in Reqs :
             (req[r].pc = "sending" /\ req'[r] # req[r]) =>
                 /\ req'[r].pc = "postDelay"
                 /\ req'[r].resp = NoResp
                 /\ Len(req'[r].calls) = Len(req[r].calls)
                 /\ req'[r].calls[Len(req[r].calls)].result # "pending"]_vars

C20_Witness ==
    /\ Completed("a")
    /\ Len(req["a"].groups) = 2 /\ Len(req["a"].calls) = 2
    /\ req["a"].fetch.done /\ req["a"].fetch.result.ok

----------------------------------------------------------------------------
(* C21 *)

\* C21: no step of an HTTP operation (the status read, the group listing, a
\* dispatch, whatever its outcome) changes qrRef or the client handle; hence
\* the answer of the status read changes only in steps of the session callbacks.
C21_HttpLeavesStatusAlone ==
    [][/\ (req' # req \/ qrResp' # qrResp \/ listing' # listing) =>
              (qrRef' = qrRef /\ clientGlobal' = clientGlobal)
       /\ QrResponse(qrRef').status # QrResponse(qrRef).status =>
              (req' = req /\ qrResp' = qrResp /\ listing' = listing)]_vars

C21_Witness ==
    /\ Completed("a")
    /\ \E k \in 1..Len(req["a"].calls) : req["a"].calls[k].result = "throw"
    /\ listing.pc = "done" /\ listing.resp.status = 500
    /\ qrResp.asked /\ qrResp.seen = qrRef
    /\ qrRef.connected /\ qrRef.code # NullCode

----------------------------------------------------------------------------
(* C27 *)

\* C27: as long as no client handle is assigned, every dispatch and every group
\* listing that has been answered got the 400 "WhatsApp not connected", none is
\* waiting on a client call and none has made one, whatever the status flag says.
C27_NoHandleNoClientCall ==
    clientGlobal = "null" =>
        /\ \A r \in Reqs :
               /\ req[r].pc \in {"idle", "done"}
               /\ req[r].pc = "done" =>
                      /\ req[r].resp = [status |-> 400, error |-> "WhatsApp not connected"]
                      /\ req[r].isReady = "noClient"
                      /\ req[r].calls = <<>> /\ ~req[r].fetch.done
        /\ listing.pc \in {"idle", "done"}
        /\ ~listing.called
        /\ listing.pc = "done" =>
               listing.resp = [status |-> 400, error |-> "WhatsApp not connected"]

C27_Witness ==
    /\ clientGlobal = "null"
    /\ qrRef.connected
    /\ qrResp.asked /\ qrResp.seen = qrRef /\ qrResp.body.status = "connected"
    /\ req["a"].pc = "done" /\ req["a"].payload = PayloadB
    /\ listing.pc = "done"

----------------------------------------------------------------------------
(* C22 *)

\* the part of a caption that begins with the given piece, 0 when there is none
PartAt(parts, lead) ==
    LET at == {k \in 1..Len(parts) : parts[k] # <<>> /\ parts[k][1] = lead}
    IN  IF at = {} THEN 0 ELSE CHOOSE k \in at : \A j \in at : k <= j

\* C22 (as stated): the caption has a part for a field exactly when the request
\* gives that field, the attribution tag being the last part when there is one,
\* in both templates; and composing again gives the same text.
C22_EmptyFieldsOmitted ==
    compose.pc \in {"once", "again"} =>
        LET t == compose.text
            c == compose.caption
            m == compose.message
        IN  /\ PartAt(c, "(point) Buy: ") # 0 <=> (t.link # "" \/ t.url # "")
            /\ PartAt(c, "(tag) ") # 0 <=> compose.affiliateId # ""
            /\ compose.affiliateId # "" =>
                   /\ PartAt(c, "(tag) ") = Len(c)
                   /\ PartAt(m, "(tag) Tag: #") = Len(m)
            /\ compose.pc = "again" =>
                   /\ compose.captionAgain = c
                   /\ compose.messageAgain = m

C22_Witness ==
    /\ compose.pc = "again"
    /\ compose.text.message = "" /\ compose.text.title = "Deal of the day"
    /\ compose.text.body = "" /\ compose.text.description = "In stock"
    /\ compose.text.link = "" /\ compose.text.url = ""
    /\ compose.affiliateId = "aff-21"
    /\ Len(compose.captionAgain) = 6
    /\ compose.captionAgain[3] = <<"In stock">>

----------------------------------------------------------------------------
(* C23 *)

\* C23: a campaign starts at most one image fetch, and starts it before any
\* destination is contacted: no send call exists while the fetch is pending, and
\* every send call of the campaign carries the payload that one fetch resolved to
\* (or its absence), so its mode is the same for every destination.
C23_ImageResolvedOnce ==
    \A r \in Reqs :
        /\ req[r].fetch.count <= 1
        /\ req[r].pc = "fetch" =>
               req[r].calls = <<>> /\ ~req[r].fetch.done /\ req[r].fetch.count = 1
        /\ req[r].calls # <<>> =>
               /\ req[r].fetch.done /\ req[r].fetch.count = 1
               /\ \A k \in 1..Len(req[r].calls) :
                      /\ req[r].calls[k].image = Base64Of(req[r].fetch.result)
                      /\ req[r].calls[k].op = SendOp(Base64Of(req[r].fetch.result))

C23_Witness ==
    \E r \in Reqs :
        /\ Completed(r)
        /\ req[r].fetch.count = 1
        /\ Len(req[r].calls) = 2
        /\ req[r].calls[1].to # req[r].calls[2].to
        /\ req[r].calls[1].op = "sendImage" /\ req[r].calls[2].op = "sendImage"
        /\ req[r].calls[1].image = req[r].calls[2].image

----------------------------------------------------------------------------
(* C26 *)

\* C26: once a campaign is past its readiness check (and axios is loaded), the
\* session's status no longer matters to it: whatever the callbacks do to the
\* status meanwhile, its sends go to its destinations in order, it is answered
\* only when every destination has been attempted, and the answer is the 200 of
\* a completed campaign.
C26_DisconnectDoesNotCancel ==
    \A r \in Reqs :
        (PastReadiness(r) /\ req[r].imported = "ok") =>
            /\ Len(req[r].calls) <= Len(req[r].groups)
            /\ \A k \in 1..Len(req[r].calls) : req[r].calls[k].to = req[r].groups[k]
            /\ req[r].resp.status \in {0, 200}
            /\ req[r].pc = "done" =>
                   /\ Completed(r)
                   /\ Len(req[r].calls) = Len(req[r].groups)
                   /\ \A k \in 1..Len(req[r].calls) : req[r].calls[k].result # "pending"

\* the session was connected when the request arrived and is disconnected now,
\* one destination is done and the send to the second one is under way
C26_Witness ==
    \E r \in Reqs :
        /\ req[r].connAtStart /\ ~qrRef.connected
        /\ req[r].pc = "sending" /\ req[r].i = 2
        /\ Len(req[r].calls) = 2
        /\ req[r].calls[2].result = "pending"

----------------------------------------------------------------------------
(* C28 *)

\* C28: a request has been answered exactly when it is finished, and then exactly
\* once; an unanswered request that has arrived is waiting for a call or a timer;
\* and each path ends in its own response: no client handle, not ready, no
\* destinations, the caught import error, the completed campaign.
C28_ExactlyOneResponse ==
    \A r \in Reqs :
        /\ req[r].responses \in {0, 1}
        /\ req[r].responses = 1 <=> req[r].pc = "done"
        /\ req[r].pc \notin {"idle", "done"} =>
               req[r].pc \in {"isConnected", "import", "fetch", "preDelay", "sending",
                              "postDelay"}
        /\ req[r].pc = "done" =>
               /\ req[r].isReady = "noClient" =>
                      req[r].resp = [status |-> 400, error |-> "WhatsApp not connected"]
               /\ req[r].isReady \in {"false", "throw"} =>
                      req[r].resp = [status |-> 400, error |-> "WhatsApp not ready yet"]
               /\ (PastReadiness(r) /\ req[r].imported = "none") =>
                      req[r].resp = [status |-> 400, error |-> "No group IDs provided"]
               /\ req[r].imported = "throw" => req[r].resp.status = 500
               /\ req[r].imported = "ok" => req[r].resp = [status |-> 200, error |-> ""]

C28_Witness ==
    \E r \in Reqs :
        /\ req[r].pc = "done" /\ req[r].responses = 1
        /\ req[r].imported = "throw" /\ req[r].resp.status = 500
        /\ req[r].calls = <<>>

----------------------------------------------------------------------------
(* C25 *)

\* C25 (as stated): a status read made after two or more login challenges, with
\* no connected event since the first of them, answers challenge-pending with the
\* artifact the latest challenge stored.
C25_LatestChallengeServed ==
    (/\ qrResp.asked
     /\ qrResp.after.challenges >= 2
     /\ qrResp.after.artifact # NullCode) =>
        qrResp.body = [status |-> "qr", qr |-> qrResp.after.artifact]

\* a read that does serve the second of two different artifacts
C25_Witness ==
    /\ qrResp.asked
    /\ qrResp.after.challenges >= 2
    /\ qrResp.after.kind = "catchQR"
    /\ qrResp.after.before.code.kind = "qrserver-url"
    /\ qrResp.after.artifact.kind = "raw"
    /\ qrResp.body = [status |-> "qr", qr |-> qrResp.after.artifact]

----------------------------------------------------------------------------
(* C30 *)

\* C30: after an onStateChange callback the status is the status before it with
\* connected set to false when the state reported is DISCONNECTED or UNPAIRED,
\* and is exactly the status before it for any other state; the stored artifact
\* is the same in both cases.
C30_OnlyDisconnectStatesAct ==
    lastEvent.kind = "onStateChange" =>
        /\ lastEvent.state \in {"DISCONNECTED", "UNPAIRED"} =>
               qrRef = [lastEvent.before EXCEPT !.connected = FALSE]
        /\ lastEvent.state \notin {"DISCONNECTED", "UNPAIRED"} =>
               qrRef = lastEvent.before
        /\ qrRef.code = lastEvent.before.code

C30_Witness ==
    /\ lastEvent.kind = "onStateChange"
    /\ lastEvent.state = "CONFLICT"
    /\ lastEvent.before.connected /\ qrRef.connected
    /\ qrRef.code.kind = "qrserver-url"

----------------------------------------------------------------------------
(* C24 *)

\* C24: every pre-send delay is between 500 and 1299 ms, every post-send delay is
\* between 1500 and 3999 ms, and so the shortest post-send delay of all campaigns
\* is longer than the longest pre-send delay of all campaigns.
C24_PostLongerThanPre ==
    /\ delays.pre # 0 => (delays.pre >= 500 /\ delays.pre <= 1299)
    /\ delays.post # 0 => (delays.post >= 1500 /\ delays.post <= 3999)
    /\ delays.maxPre # 0 => (delays.maxPre >= delays.pre /\ delays.maxPre <= 1299)
    /\ delays.minPost # 0 => (delays.minPost <= delays.post /\ delays.minPost >= 1500)
    /\ (delays.maxPre # 0 /\ delays.minPost # 0) => delays.minPost > delays.maxPre

\* the longest pre-send delay and the shortest post-send delay have both occurred
C24_Witness ==
    /\ delays.maxPre = 1299
    /\ delays.minPost = 1500
    /\ req["a"].pc = "done" /\ Len(req["a"].calls) = 2

----------------------------------------------------------------------------
(* C29 *)

\* the startup call of the given kind, 0 when there is none
StartCallAt(op) ==
    LET at == {k \in 1..Len(startup.calls) : startup.calls[k].op = op}
    IN  IF at = {} THEN 0 ELSE CHOOSE k \in at : \A j \in at : k <= j

\* C29: the startup sequence makes at most one image send and at most one text
\* send, all to the first configured default destination and none when nothing
\* is configured; a text send is made exactly when the image was not sent with
\* success (the fetch failed, or the image send was rejected or returned erro),
\* so a text send never follows an image send that succeeded; and no step of the
\* sequence after the client is ready changes the session status or the client
\* handle.
C29_StartupSendsOnce ==
    /\ [](LET calls == startup.calls
              img == StartCallAt("sendImage")
              txt == StartCallAt("sendText")
              imageSent == img # 0 /\ calls[img].result = "ok"
          IN  /\ Len(calls) <= 2
              /\ Cardinality({k \in 1..Len(calls) : calls[k].op = "sendImage"}) <= 1
              /\ Cardinality({k \in 1..Len(calls) : calls[k].op = "sendText"}) <= 1
              /\ calls # <<>> =>
                     /\ Len(DEFAULT_GROUPS) > 0
                     /\ \A k \in 1..Len(calls) :
                            calls[k].to = normalizeGroupId(DEFAULT_GROUPS[1]).s
              /\ startup.sent <=> imageSent
              /\ txt # 0 => ~imageSent /\ (img = 0 \/ img < txt)
              /\ startup.pc = "end" =>
                     /\ calls = <<>> <=>
                            (\/ Len(DEFAULT_GROUPS) = 0
                             \/ ~IdTruthy(normalizeGroupId(DEFAULT_GROUPS[1])))
                     /\ calls # <<>> => (txt # 0 <=> ~imageSent))
    /\ [][(startup' # startup /\ startup.pc # "init") =>
              (qrRef' = qrRef /\ clientGlobal' = clientGlobal)]_vars

C29_Witness ==
    /\ startup.pc = "end"
    /\ Len(DEFAULT_GROUPS) = 2
    /\ Len(startup.calls) = 2
    /\ startup.calls[1].op = "sendImage" /\ startup.calls[1].result = "erro"
    /\ startup.calls[2].op = "sendText" /\ startup.calls[2].result = "throw"
    /\ startup.calls[2].to = Str123 \o Suffix
    /\ clientGlobal = "client" /\ qrRef.connected

====
